---- MODULE Spec2Model ----
(***************************************************************************)
(* The generation request lifecycle of streamlit-frontend/streamlit_app.py *)
(* as a state machine.  One script run is triggered by one button; the run *)
(* of the Generate button blocks in requests.post, so it is split at that  *)
(* call: Generate issues the request, one of the Response/Request actions  *)
(* finishes the handler.  Text is a sequence of Unicode code points.       *)
(***************************************************************************)
EXTENDS Integers, Sequences, FiniteSets, TLC

\* ------------------------------------------------------------------ text

\* Longest text typed into a form field in the payload specification.
MaxLen == 2

\* Code points typed into the form: space and "a".
Alphabet == {32, 97}

RECURSIVE TextsUpTo(_)
TextsUpTo(n) ==
    IF n = 0 THEN {<<>>}
    ELSE LET S == TextsUpTo(n - 1)
         IN  S \cup {Append(s, c) : s \in {t \in S : Len(t) = n - 1}, c \in Alphabet}

Texts == TextsUpTo(MaxLen)

\* The code points str.isspace() accepts, which str.strip() removes.
Whitespace ==
    (9..13) \cup (28..32) \cup {133, 160, 5760} \cup (8192..8202)
        \cup {8232, 8233, 8239, 8287, 12288}

RECURSIVE lstrip(_)
lstrip(s) == IF s # <<>> /\ Head(s) \in Whitespace THEN lstrip(Tail(s)) ELSE s

RECURSIVE rstrip(_)
rstrip(s) ==
    IF s # <<>> /\ s[Len(s)] \in Whitespace
    THEN rstrip(SubSeq(s, 1, Len(s) - 1))
    ELSE s

\* str.strip() with no argument.
strip(s) == rstrip(lstrip(s))

\* ", Ultra HD, 4K, cinematic composition."
EnglishMagic ==
    <<44, 32, 85, 108, 116, 114, 97, 32, 72, 68, 44, 32, 52, 75, 44, 32, 99, 105,
      110, 101, 109, 97, 116, 105, 99, 32, 99, 111, 109, 112, 111, 115, 105, 116,
      105, 111, 110, 46>>

\* ", " U+8D85 U+6E05 U+FF0C "4K" U+FF0C U+7535 U+5F71 U+7EA7 U+6784 U+56FE "."
ChineseMagic ==
    <<44, 32, 36229, 28165, 65292, 52, 75, 65292, 30005, 24433, 32423, 26500,
      22270, 46>>

Languages == {"English", "Chinese", "None"}

\* Mutant: the custom text overrides only when no language suffix is selected.
PositiveMagicCustomOnlyForNone(language, custom_positive) ==
    IF language = "English" THEN EnglishMagic
    ELSE IF language = "Chinese" THEN ChineseMagic
    ELSE custom_positive

\* positive_magic after the language selectbox and the custom text input.
PositiveMagic(language, custom_positive) ==
    LET by_language ==
            IF language = "English" THEN EnglishMagic
            ELSE IF language = "Chinese" THEN ChineseMagic
            ELSE <<>>
    IN  IF custom_positive # <<>> THEN custom_positive ELSE by_language

EnhancedPrompt(prompt, positive_magic) ==
    IF positive_magic # <<>> THEN prompt \o positive_magic ELSE prompt

\* Mutant: the negative prompt is sent as typed, also when it is blank.
NegativeFieldAsTyped(negative_prompt) == negative_prompt

\* Mutant: the negative prompt is trimmed before it is sent.
NegativeFieldTrimmed(negative_prompt) ==
    IF strip(negative_prompt) # <<>> THEN strip(negative_prompt) ELSE <<32>>

\* The payload's negative_prompt field.
NegativeField(negative_prompt) ==
    IF strip(negative_prompt) # <<>> THEN negative_prompt ELSE <<32>>

aspect_ratios ==
    ("Square (1:1)" :> <<1328, 1328>>) @@ ("Landscape (16:9)" :> <<1664, 928>>)
        @@ ("Portrait (9:16)" :> <<928, 1664>>) @@ ("Photo (4:3)" :> <<1472, 1140>>)
        @@ ("Portrait Photo (3:4)" :> <<1140, 1472>>)
        @@ ("Wide (3:2)" :> <<1584, 1056>>) @@ ("Tall (2:3)" :> <<1056, 1584>>)

\* The widget values one script run reads, as a record.
\* The sliders stay at their defaults: 50 steps, CFG scale 4.0 (in tenths).
Form(api_url, prompt, negative_prompt, language, custom_positive, selected_ratio, seed) ==
    [api_url |-> api_url, prompt |-> prompt, negative_prompt |-> negative_prompt,
     language |-> language, custom_positive |-> custom_positive,
     selected_ratio |-> selected_ratio, num_steps |-> 50, cfg_scale |-> 40,
     seed |-> seed]

\* The JSON body posted to /generate.
Payload(form) ==
    [prompt |-> EnhancedPrompt(form.prompt,
                               PositiveMagic(form.language, form.custom_positive)),
     negative_prompt |-> NegativeField(form.negative_prompt),
     num_inference_steps |-> form.num_steps,
     width |-> aspect_ratios[form.selected_ratio][1],
     height |-> aspect_ratios[form.selected_ratio][2],
     true_cfg_scale |-> form.cfg_scale,
     seed |-> form.seed]

\* ------------------------------------------------------- the environment

None == [none |-> TRUE]

\* Status codes the backend answers with; 201 is a success that is not 200.
Statuses == {200, 201, 500}

\* Response bodies, by what they hold.
Bodies ==
    {"OOM", "{}", "{image_base64: !!}", "{image_base64: text}",
     "{image_base64: png}", "{image_base64: png, seed_used: 7}"}

Responses == [status : Statuses, body : Bodies]

\* Exception classes, each with the classes it is an instance of.
Mro ==
    ("ConnectTimeout" :> {"ConnectTimeout", "ConnectionError", "Timeout", "Exception"})
        @@ ("ReadTimeout" :> {"ReadTimeout", "Timeout", "Exception"})
        @@ ("ConnectionError" :> {"ConnectionError", "Exception"})
        @@ ("InvalidSchema" :> {"InvalidSchema", "Exception"})
        @@ ("JSONDecodeError" :> {"JSONDecodeError", "ValueError", "Exception"})
        @@ ("KeyError" :> {"KeyError", "Exception"})
        @@ ("binascii.Error" :> {"binascii.Error", "ValueError", "Exception"})
        @@ ("UnidentifiedImageError" :> {"UnidentifiedImageError", "OSError", "Exception"})

Raised(class, text) == [class |-> class, text |-> text]

\* What requests.post raises instead of returning a response.
RequestExceptions ==
    {Raised("ConnectTimeout", "connect timed out"),
     Raised("ReadTimeout", "read timed out"),
     Raised("ConnectionError", "connection refused"),
     Raised("InvalidSchema", "no connection adapters were found")}

\* response.json(), data["image_base64"], base64.b64decode and Image.open on a
\* body: the image and the seed_used field (None when absent), or what is raised.
Decode(body) ==
    IF body = "OOM"
    THEN [ok |-> FALSE, raised |-> Raised("JSONDecodeError", "expecting value")]
    ELSE IF body = "{}"
    THEN [ok |-> FALSE, raised |-> Raised("KeyError", "'image_base64'")]
    ELSE IF body = "{image_base64: !!}"
    THEN [ok |-> FALSE, raised |-> Raised("binascii.Error", "incorrect padding")]
    ELSE IF body = "{image_base64: text}"
    THEN [ok |-> FALSE,
          raised |-> Raised("UnidentifiedImageError", "cannot identify image file")]
    ELSE [ok |-> TRUE, img |-> [png |-> "png"],
          seed_used |-> IF body = "{image_base64: png, seed_used: 7}"
                        THEN [seed |-> 7] ELSE None]

\* Mutant: the ConnectionError clause comes before the Timeout clause.
ExceptClauseConnectionFirst(class) ==
    IF "ConnectionError" \in Mro[class] THEN "ConnectionError"
    ELSE IF "Timeout" \in Mro[class] THEN "Timeout"
    ELSE "Exception"

\* The except clause that catches an exception of the class: the first that matches.
ExceptClause(class) ==
    IF "Timeout" \in Mro[class] THEN "Timeout"
    ELSE IF "ConnectionError" \in Mro[class] THEN "ConnectionError"
    ELSE "Exception"

\* The st.error messages, by their parts.
EmptyPromptMessage == [kind |-> "Please enter a prompt!"]

BackendMessage(status, body) ==
    [kind |-> "Generation failed", status |-> status, body |-> body]

TimeoutMessage == [kind |-> "Request timed out"]

UnreachableMessage(api_url) == [kind |-> "Cannot connect to API", api_url |-> api_url]

UnknownMessage(text) == [kind |-> "Error", text |-> text]

\* ------------------------------------------------------------ the state

VARIABLES
    generated_image,  \* st.session_state.generated_image: None or the decoded image
    generation_info,  \* st.session_state.generation_info: None or the metadata
    current_prompt,   \* st.session_state.current_prompt: 0 the default, k example k
    generating,       \* st.session_state.generating
    pc,               \* "idle" between script runs, "waiting" inside requests.post
    button,           \* the button that triggered the latest script run
    form,             \* the widget values the handler read, None once it returned
    payload,          \* the payload the handler built, None once it returned
    click,            \* the latest Generate click: its prompt and API endpoint, and
                      \* whether it found an image stored and the flag set
    posts,            \* POST requests to /generate the latest Generate run has issued
    outcome,          \* what requests.post returned or raised in the latest Generate run
    message,          \* the st.error message the latest script run rendered
    sidebar           \* the health message the latest script run rendered

vars ==
    <<generated_image, generation_info, current_prompt, generating, pc, button,
      form, payload, click, posts, outcome, message, sidebar>>

session == <<generated_image, generation_info, current_prompt, generating>>

\* The locals and the output of a script run that is not a Generate run.
OtherRun(name) ==
    /\ button' = name
    /\ form' = None
    /\ payload' = None
    /\ click' = None
    /\ posts' = 0
    /\ outcome' = None
    /\ message' = None

NumExamples == 7

Init ==
    /\ generated_image = None
    /\ generation_info = None
    /\ current_prompt = 0
    /\ generating = FALSE
    /\ pc = "idle"
    /\ button = "none"
    /\ form = None
    /\ payload = None
    /\ click = None
    /\ posts = 0
    /\ outcome = None
    /\ message = None
    /\ sidebar = None

\* The display condition of the result section.
Displayed == generated_image # None /\ ~generating

\* not prompt.strip()
EmptyPrompt(prompt) == strip(prompt) = <<>>

\* Mutant: the previous result is kept until the new one arrives.
StartGenerationKeepsResult ==
    /\ generating' = TRUE
    /\ UNCHANGED <<generated_image, generation_info>>

\* The session state a submission with a prompt sets before the request.
StartGeneration ==
    /\ generated_image' = None
    /\ generation_info' = None
    /\ generating' = TRUE

\* Mutant: the form refuses a submission while the in-flight flag is set.
GenerateUnlessGenerating(forms) ==
    /\ pc = "idle"
    /\ ~generating
    /\ \E f \in forms :
        /\ click' = [prompt |-> f.prompt, api_url |-> f.api_url,
                     had_image |-> generated_image # None,
                     was_generating |-> generating]
        /\ IF EmptyPrompt(f.prompt)
           THEN /\ message' = EmptyPromptMessage
                /\ form' = None
                /\ payload' = None
                /\ posts' = 0
                /\ UNCHANGED <<generated_image, generation_info, generating, pc>>
           ELSE /\ StartGeneration
                /\ form' = f
                /\ payload' = Payload(f)
                /\ posts' = 1
                /\ message' = None
                /\ pc' = "waiting"
    /\ button' = "generate"
    /\ outcome' = None
    /\ sidebar' = None
    /\ UNCHANGED current_prompt

\* The Generate button, up to the return of the handler (empty prompt) or to the
\* request (otherwise); forms is the set of widget values the run may read.
Generate(forms) ==
    /\ pc = "idle"
    /\ \E f \in forms :
        /\ click' = [prompt |-> f.prompt, api_url |-> f.api_url,
                     had_image |-> generated_image # None,
                     was_generating |-> generating]
        /\ IF EmptyPrompt(f.prompt)
           THEN /\ message' = EmptyPromptMessage
                /\ form' = None
                /\ payload' = None
                /\ posts' = 0
                /\ UNCHANGED <<generated_image, generation_info, generating, pc>>
           ELSE /\ StartGeneration
                /\ form' = f
                /\ payload' = Payload(f)
                /\ posts' = 1
                /\ message' = None
                /\ pc' = "waiting"
    /\ button' = "generate"
    /\ outcome' = None
    /\ sidebar' = None
    /\ UNCHANGED current_prompt

\* What every end of the Generate handler leaves alone.
HandlerReturns ==
    /\ pc' = "idle"
    /\ form' = None
    /\ payload' = None
    /\ UNCHANGED <<current_prompt, button, click, posts, sidebar>>

\* The generation_info of a result, from the locals of the run.
\* time.time() is read as one fixed clock: 3.5 s elapsed (in tenths).
GenerationInfo(f, enhanced_prompt, actual_seed) ==
    [prompt |-> enhanced_prompt,
     original_prompt |-> f.prompt,
     negative_prompt |-> f.negative_prompt,
     elapsed_time |-> 35,
     timestamp |-> 1762300800,
     parameters |->
         [steps |-> f.num_steps,
          cfg_scale |-> f.cfg_scale,
          resolution |-> aspect_ratios[f.selected_ratio],
          seed |-> actual_seed,
          aspect_ratio |-> f.selected_ratio,
          language_enhancement |-> f.language,
          custom_enhancement |-> f.custom_positive]]

\* Mutant: the success branch stores the result and leaves the flag set.
StoreResultKeepsFlag(img, info) ==
    /\ generated_image' = img
    /\ generation_info' = info
    /\ UNCHANGED generating

\* The three assignments that end the success branch.
StoreResult(img, info) ==
    /\ generated_image' = img
    /\ generation_info' = info
    /\ generating' = FALSE

\* The except clauses: the message of the clause that catches e, and the flag.
Except(e) ==
    /\ message' =
           IF ExceptClause(e.class) = "Timeout" THEN TimeoutMessage
           ELSE IF ExceptClause(e.class) = "ConnectionError"
           THEN UnreachableMessage(form.api_url)
           ELSE UnknownMessage(e.text)
    /\ generating' = FALSE
    /\ UNCHANGED <<generated_image, generation_info>>

\* requests.post returns 200 and the body decodes to an image.
ResponseOK ==
    /\ pc = "waiting"
    /\ \E r \in Responses :
        /\ r.status = 200
        /\ Decode(r.body).ok
        /\ outcome' = [kind |-> "response", status |-> r.status, body |-> r.body]
        /\ LET data == Decode(r.body)
               actual_seed ==
                   IF data.seed_used # None THEN data.seed_used.seed ELSE form.seed
           IN  StoreResult(data.img, GenerationInfo(form, payload.prompt, actual_seed))
    /\ message' = None
    /\ HandlerReturns

\* requests.post returns 200 and reading the image out of the body raises.
ResponseUndecodable ==
    /\ pc = "waiting"
    /\ \E r \in Responses :
        /\ r.status = 200
        /\ ~Decode(r.body).ok
        /\ outcome' = [kind |-> "response", status |-> r.status, body |-> r.body]
        /\ Except(Decode(r.body).raised)
    /\ HandlerReturns

\* requests.post returns another status than 200.
ResponseNon200 ==
    /\ pc = "waiting"
    /\ \E r \in Responses :
        /\ r.status # 200
        /\ outcome' = [kind |-> "response", status |-> r.status, body |-> r.body]
        /\ message' = BackendMessage(r.status, r.body)
    /\ UNCHANGED <<generated_image, generation_info, generating>>
    /\ HandlerReturns

\* Mutant: a request that raises is issued once more before the error is reported.
RequestRaisesRetriesOnce ==
    /\ pc = "waiting"
    /\ IF posts < 2
       THEN /\ posts' = posts + 1
            /\ UNCHANGED <<session, pc, button, form, payload, click, outcome,
                           message, sidebar>>
       ELSE /\ \E e \in RequestExceptions :
                /\ outcome' = [kind |-> "raised", class |-> e.class, text |-> e.text]
                /\ Except(e)
            /\ HandlerReturns

\* requests.post raises.
RequestRaises ==
    /\ pc = "waiting"
    /\ \E e \in RequestExceptions :
        /\ outcome' = [kind |-> "raised", class |-> e.class, text |-> e.text]
        /\ Except(e)
    /\ HandlerReturns

\* Mutant: the Clear Image button empties the image and keeps its metadata.
ClearImageKeepsInfo ==
    /\ pc = "idle"
    /\ Displayed
    /\ generated_image' = None
    /\ OtherRun("clear")
    /\ sidebar' = None
    /\ UNCHANGED <<generation_info, current_prompt, generating, pc>>

\* The Clear Image button, rendered only in the result section.
ClearImage ==
    /\ pc = "idle"
    /\ Displayed
    /\ generated_image' = None
    /\ generation_info' = None
    /\ OtherRun("clear")
    /\ sidebar' = None
    /\ UNCHANGED <<current_prompt, generating, pc>>

\* The Check Health button: healthy on 200, unhealthy on another status,
\* unreachable on any exception.
CheckHealth ==
    /\ pc = "idle"
    /\ \E m \in {"Service is healthy", "Service unhealthy", "Cannot reach service"} :
        sidebar' = [kind |-> m]
    /\ OtherRun("health")
    /\ UNCHANGED <<session, pc>>

\* One of the example prompt buttons.
SelectExample ==
    /\ pc = "idle"
    /\ \E k \in 1..NumExamples : current_prompt' = k
    /\ OtherRun("example")
    /\ sidebar' = None
    /\ UNCHANGED <<generated_image, generation_info, generating, pc>>

\* --------------------------------------------------- the specifications

\* Widget values of the lifecycle specification.
FormUrls == {"http://localhost:8000", "http://backend:8000"}

FormPrompts == {<<>>, <<32>>, <<97>>}

FormNegatives == {<<>>, <<32, 97>>}

FormCustoms == {<<>>, <<33>>}

FormRatios == {"Square (1:1)"}

FormSeeds == {-1, 42}

Forms ==
    {Form(u, p, n, l, c, r, s) :
        u \in FormUrls, p \in FormPrompts, n \in FormNegatives, l \in Languages,
        c \in FormCustoms, r \in FormRatios, s \in FormSeeds}

\* Widget values of the payload specification: every text up to MaxLen.
TextForms ==
    {Form("http://localhost:8000", p, n, l, c, "Square (1:1)", -1) :
        p \in Texts, n \in Texts, l \in Languages, c \in Texts}

GenerateForm == Generate(Forms)

GenerateText == Generate(TextForms)

Next ==
    \/ GenerateForm
    \/ ResponseOK
    \/ ResponseUndecodable
    \/ ResponseNon200
    \/ RequestRaises
    \/ ClearImage
    \/ CheckHealth
    \/ SelectExample

\* The lifecycle of the session, over a few forms.
Spec == Init /\ [][Next]_vars

NextPayload ==
    \/ GenerateText
    \/ RequestRaises

\* Payload construction over every text, against a backend that is down.
SpecPayload == Init /\ [][NextPayload]_vars

\* ------------------------------------------------------------ the claims

\* The latest script run was a Generate run and its handler has returned.
SubmitReturned == pc = "idle" /\ button = "generate"

\* The request of the latest Generate run returned 200 with a decodable image.
Succeeded ==
    /\ outcome # None
    /\ outcome.kind = "response"
    /\ outcome.status = 200
    /\ Decode(outcome.body).ok

\* The request of the latest Generate run was made and did not succeed.
Failed == outcome # None /\ ~Succeeded

\* C1: generating is false whenever the Generate handler has returned, whatever
\* the outcome and whatever the session state was before the click.
C1_FlagClearedOnReturn == SubmitReturned => ~generating

\* C2: between script runs generated_image and generation_info are both present
\* or both empty, and after Clear Image both are empty.
C2_ImageAndInfoTogether ==
    pc = "idle" =>
        /\ (generated_image = None) <=> (generation_info = None)
        /\ button = "clear" => generated_image = None /\ generation_info = None

C2_Witness ==
    /\ pc = "idle"
    /\ button = "clear"
    /\ generated_image = None
    /\ generation_info = None

\* C3: a Generate run issues no POST when its prompt is empty or whitespace-only,
\* and then reports the empty-prompt error; otherwise it issues exactly one,
\* whatever the outcome.
C3_OnePostPerSubmit ==
    button = "generate" =>
        IF strip(click.prompt) = <<>>
        THEN posts = 0 /\ pc = "idle" /\ outcome = None /\ message = EmptyPromptMessage
        ELSE posts = 1

C3_Witness == SubmitReturned /\ Failed /\ outcome.kind = "raised" /\ posts = 1

\* C4: while the request is in flight generated_image and generation_info are
\* empty, and they are empty after a Generate run whose request failed, also when
\* the run found a result stored.
C4_EagerClear ==
    /\ pc = "waiting" => generated_image = None /\ generation_info = None
    /\ (SubmitReturned /\ Failed) => generated_image = None /\ generation_info = None

C4_Witness ==
    /\ SubmitReturned
    /\ Failed
    /\ click.had_image
    /\ generated_image = None
    /\ generation_info = None

\* C5: the error a failed Generate run reports is the one of its request's
\* outcome: status and body of a non-200 response, the timeout error for a
\* Timeout, the unreachable error naming the API endpoint for a ConnectionError
\* that is no Timeout, the catch-all error with the exception's text otherwise;
\* and no image is displayed.
C5_ErrorMatchesOutcome ==
    (SubmitReturned /\ Failed) =>
        /\ (outcome.kind = "response" /\ outcome.status # 200) =>
               message = [kind |-> "Generation failed", status |-> outcome.status,
                          body |-> outcome.body]
        /\ (outcome.kind = "response" /\ outcome.status = 200) =>
               message = [kind |-> "Error", text |-> Decode(outcome.body).raised.text]
        /\ (outcome.kind = "raised" /\ "Timeout" \in Mro[outcome.class]) =>
               message = [kind |-> "Request timed out"]
        /\ (/\ outcome.kind = "raised"
            /\ "Timeout" \notin Mro[outcome.class]
            /\ "ConnectionError" \in Mro[outcome.class]) =>
               message = [kind |-> "Cannot connect to API", api_url |-> click.api_url]
        /\ (/\ outcome.kind = "raised"
            /\ "Timeout" \notin Mro[outcome.class]
            /\ "ConnectionError" \notin Mro[outcome.class]) =>
               message = [kind |-> "Error", text |-> outcome.text]
        /\ ~Displayed

C5_Witness ==
    /\ SubmitReturned
    /\ outcome = [kind |-> "response", status |-> 500, body |-> "OOM"]
    /\ message = [kind |-> "Generation failed", status |-> 500, body |-> "OOM"]
    /\ ~Displayed

\* C6: between script runs the form takes a submission with a prompt, whatever
\* failed before, and a Generate run whose request returned 200 with a decodable
\* image has stored it and displays it.
C6_SuccessAfterFailures ==
    /\ pc = "idle" => ENABLED (GenerateForm /\ pc' = "waiting")
    /\ (SubmitReturned /\ Succeeded) =>
           /\ generated_image = Decode(outcome.body).img
           /\ generation_info # None
           /\ ~generating
           /\ Displayed

C6_Witness == SubmitReturned /\ Succeeded /\ click.was_generating /\ Displayed

\* C7: the negative_prompt field of the payload is never empty, and it is one
\* space when the negative prompt typed is empty or whitespace-only.
C7_NegativeNeverEmpty ==
    pc = "waiting" =>
        /\ payload.negative_prompt # <<>>
        /\ strip(form.negative_prompt) = <<>> => payload.negative_prompt = <<32>>

C7_Witness ==
    /\ pc = "waiting"
    /\ form.negative_prompt = <<32, 32>>
    /\ payload.negative_prompt = <<32>>

\* C8: the prompt of the payload is the prompt typed followed by the suffix: the
\* custom text when it is not empty, else the suffix of the language selected.
C8_EnhancedPrompt ==
    pc = "waiting" =>
        LET suffix ==
                IF form.custom_positive # <<>> THEN form.custom_positive
                ELSE CASE form.language = "English" -> EnglishMagic
                       [] form.language = "Chinese" -> ChineseMagic
                       [] form.language = "None" -> <<>>
        IN  payload.prompt = form.prompt \o suffix

C8_Witness ==
    /\ pc = "waiting"
    /\ form.language = "English"
    /\ form.custom_positive = <<32>>
    /\ payload.prompt = form.prompt \o <<32>>

\* C9 as claimed: a negative prompt with a non-whitespace character is sent
\* trimmed of its leading and trailing whitespace.
C9_NegativeTrimmed ==
    (pc = "waiting" /\ strip(form.negative_prompt) # <<>>) =>
        payload.negative_prompt = strip(form.negative_prompt)

\* C9 as amended: a negative prompt with a non-whitespace character is sent as
\* typed, its leading and trailing whitespace included.
C9_NegativeAsTyped ==
    (pc = "waiting" /\ strip(form.negative_prompt) # <<>>) =>
        payload.negative_prompt = form.negative_prompt

C9_Witness ==
    /\ pc = "waiting"
    /\ form.negative_prompt = <<32, 97>>
    /\ payload.negative_prompt = <<32, 97>>

\* C10: between script runs a stored image is never hidden by the flag: when
\* generated_image is present generating is false, so the image is displayed
\* exactly when one is stored.
C10_ResultNeverHidden ==
    pc = "idle" =>
        /\ generated_image # None => ~generating
        /\ Displayed <=> generated_image # None

C10_Witness ==
    /\ pc = "idle"
    /\ button = "example"
    /\ generated_image # None
    /\ Displayed

====
